---- MODULE Spec2Model ----
(***************************************************************************)
(* Model of the Study Coach API gateway (src/api-gateway/main.py): the     *)
(* quiz, flashcards, scan and health endpoints, the sequential quiz        *)
(* orchestrator _generate_quiz_with_llm, its prompt sizing, the completion *)
(* client _call_ollama and the extractor _parse_json_array; of the older   *)
(* backend service (src/backend/main.py, services/ai_service.py): the      *)
(* generate-content endpoint and AIService; and of the event loop both     *)
(* services run their handlers on.                                         *)
(*                                                                         *)
(* Text is modelled as a sequence of tokens.  A completion text is a       *)
(* sequence over Tokens:                                                   *)
(*   "[" "]" "{" "}" ","   the JSON structural characters                  *)
(*   "k"   a quoted object key followed by its colon ("name":); the keys   *)
(*         of one object are taken to be pairwise distinct                 *)
(*   "1"   a JSON number                                                   *)
(*   "s"   a JSON string (only in the sample texts: the extractor treats   *)
(*         every scalar alike)                                             *)
(*   "x"   a run of prose that is not JSON                                 *)
(*   "w"   a whitespace character                                          *)
(*   "F"   the code-fence marker ```                                       *)
(*   "J"   the code-fence marker ```json                                   *)
(*   "D"   a run of "[" characters longer than the interpreter's recursion *)
(*         limit: json.loads raises RecursionError when it has to read a   *)
(*         value there                                                     *)
(* A parsed JSON value is represented by its token sequence with the       *)
(* whitespace removed; a parsed array by the sequence of its elements.     *)
(***************************************************************************)
EXTENDS Integers, Sequences, FiniteSets, TLC

\* Longest completion text enumerated by the extractor specification.
MaxLen == 4

Tokens == {"[", "]", "{", "}", ",", "k", "1", "x", "w", "F", "J", "D"}

Scalars == {"1", "s"}

Texts(n) == UNION {[1..m -> Tokens] : m \in 0..n}

\* Longest request text (before trimming) a client sends.
MaxTextLen == 2

VARIABLES
    raw,        \* the completion text handed to _parse_json_array
    parsed_out, \* what the call produced: [done, raised, value]
    pc,         \* the request handler: "idle", "await" (suspended in an LLM call), "done"
    endpoint,   \* "none", "quiz" (/api/generate_quiz), "flashcards" (/api/generate_flashcards)
    req,        \* the request as sent: [text, quiz_type]
    text,       \* the handler's local text (trimmed)
    quiz_type,  \* the handler's local quiz_type (lower-cased)
    ollama,     \* what the LLM service does with the prompt of each kind during this request
    cur,        \* the kind whose completion call is awaited
    sub,        \* per kind: "pending", "in_flight", "succeeded", "failed"
    calls,      \* per kind: completion calls issued
    result,     \* the orchestrator's local dict: kind -> list of records
    orc,        \* how _generate_quiz_with_llm ended: "none", "raised", "returned"
    status,     \* HTTP status of the response (0: not answered)
    body,       \* the response body: [success, quiz, flashcards]
    ocr,        \* /api/scan: what the exchange with the OCR service comes to
    probes,     \* /health: what the two probes come to: [ocr, llm]
    probed,     \* /health: the services a probe was sent to
    health_body,\* /health: the response body: [status, services]
    b_pc,       \* backend handler: "idle", "await", "done"
    b_req,      \* backend request as sent: [text, content_type]
    b_ollama,   \* backend: what the LLM service does with the prompt of each kind
    b_cur,      \* backend: the kind whose completion call is outstanding
    b_calls,    \* backend: per kind, completion calls issued
    b_result,   \* backend: generate_content's local dict: kind -> content
    b_status,   \* backend: HTTP status of the response (0: not answered)
    b_content,  \* backend: the "content" of the success response
    service,    \* event loop: the service the process runs ("gateway", "backend")
    tasks,      \* event loop: per inbound request [endpoint, state, left]
    holder,     \* event loop: the request whose synchronous call holds the loop thread (0: none)
    sz_kind,    \* prompt builder: the kind a prompt is built for
    sz_len,     \* prompt builder: len(text)
    sz_range,   \* prompt builder: the record-count range written into the prompt
    flows,      \* concurrent quiz requests: per request [pc, quiz_type, ollama, cur, status, quiz]
    dicts,      \* concurrent quiz requests: the result dicts of the orchestrator calls
    u_service,  \* uploads: the service the process runs ("ocr-service", "backend")
    whisper_api,\* uploads: the backend's USE_WHISPER_API setting
    uploads,    \* uploads: per request [endpoint, filename, image, readable, pc, path, fd, input, status]
    files,      \* uploads: the temporary directory: path -> inode (0: no such file)
    inodes      \* uploads: inode -> the bytes written to it

extract_vars == <<raw, parsed_out>>

gateway_vars ==
    <<pc, endpoint, req, text, quiz_type, ollama, cur, sub, calls, result, orc, status, body>>

scan_health_vars == <<ocr, probes, probed, health_body>>

backend_vars ==
    <<b_pc, b_req, b_ollama, b_cur, b_calls, b_result, b_status, b_content>>

loop_vars == <<service, tasks, holder>>

sizing_vars == <<sz_kind, sz_len, sz_range>>

concurrent_vars == <<flows, dicts>>

upload_vars == <<u_service, whisper_api, uploads, files, inodes>>

more_vars == <<concurrent_vars, upload_vars>>

\* Everything but the extractor's and the quiz and flashcards handlers' state.
rest_vars == <<scan_health_vars, backend_vars, loop_vars, sizing_vars, more_vars>>

vars == <<extract_vars, gateway_vars, rest_vars>>

-----------------------------------------------------------------------------
(* String helpers (Python str methods and re functions used by the code).  *)

RECURSIVE SkipWs(_, _)
\* First position j >= i of s that does not hold whitespace (Len(s)+1 if none).
SkipWs(s, i) ==
    IF i > Len(s) THEN i
    ELSE IF s[i] = "w" THEN SkipWs(s, i + 1) ELSE i

RECURSIVE LastNonWs(_, _)
\* Last position j <= i of s that does not hold whitespace (0 if none).
LastNonWs(s, i) ==
    IF i < 1 THEN 0
    ELSE IF s[i] = "w" THEN LastNonWs(s, i - 1) ELSE i

\* str.strip(): drop leading and trailing whitespace.
strip(s) == SubSeq(s, SkipWs(s, 1), LastNonWs(s, Len(s)))

\* str.startswith('```'): both fence markers begin with three backticks.
startswith_fence(s) == Len(s) > 0 /\ s[1] \in {"F", "J"}

RECURSIVE re_sub_fence(_, _, _)
\* re.sub(marker + r'\s*', '', s): delete every occurrence of the marker
\* together with the whitespace that follows it.
re_sub_fence(markers, s, i) ==
    IF i > Len(s) THEN <<>>
    ELSE IF s[i] \in markers THEN re_sub_fence(markers, s, SkipWs(s, i + 1))
    ELSE <<s[i]>> \o re_sub_fence(markers, s, i + 1)

RECURSIVE find_open_from(_, _)
\* str.find('[') with Python's 0-based result, -1 when there is none; a run
\* of "[" characters holds the character too.
find_open_from(s, i) ==
    IF i > Len(s) THEN -1
    ELSE IF s[i] \in {"[", "D"} THEN i - 1 ELSE find_open_from(s, i + 1)

\* Mutant of rfind: str.find in its place, the first occurrence of c.
find_first(s, c) ==
    IF \E i \in 1..Len(s) : s[i] = c
        THEN (CHOOSE i \in 1..Len(s) : s[i] = c /\ \A m \in 1..(i - 1) : s[m] # c) - 1
        ELSE -1

RECURSIVE rfind_from(_, _, _)
\* str.rfind(c) with Python's 0-based result, -1 when c does not occur.
rfind_from(s, c, i) ==
    IF i < 1 THEN -1
    ELSE IF s[i] = c THEN i - 1 ELSE rfind_from(s, c, i - 1)

rfind(s, c) == rfind_from(s, c, Len(s))

\* Python slice s[a:b] for 0 <= a.
slice(s, a, b) == SubSeq(s, a + 1, b)

-----------------------------------------------------------------------------
(* json.loads over token sequences.                                        *)

\* json.JSONDecodeError.
JsonFail ==
    [ok |-> FALSE, err |-> "JSONDecodeError", next |-> 0, val |-> <<>>, items |-> <<>>]

\* RecursionError: the scanner ran out of stack while descending into arrays.
JsonRecursion ==
    [ok |-> FALSE, err |-> "RecursionError", next |-> 0, val |-> <<>>, items |-> <<>>]

JsonOk(next, val, items) ==
    [ok |-> TRUE, err |-> "", next |-> next, val |-> val, items |-> items]

RECURSIVE JoinItems(_)
\* The elements of an array written out with separating commas.
JoinItems(items) ==
    IF items = <<>> THEN <<>>
    ELSE IF Len(items) = 1 THEN items[1]
    ELSE items[1] \o <<",">> \o JoinItems(Tail(items))

RECURSIVE ParseValue(_, _), ParseElems(_, _, _, _), ParseMembers(_, _, _, _)

\* One JSON value starting at position i (whitespace already skipped).
ParseValue(s, i) ==
    IF i > Len(s) THEN JsonFail
    ELSE IF s[i] \in Scalars
        THEN JsonOk(i + 1, <<s[i]>>, <<>>)
    ELSE IF s[i] = "D" THEN JsonRecursion
    ELSE IF s[i] = "[" THEN ParseElems(s, SkipWs(s, i + 1), <<>>, TRUE)
    ELSE IF s[i] = "{" THEN ParseMembers(s, SkipWs(s, i + 1), <<>>, TRUE)
    ELSE JsonFail

\* The rest of an array after "[" (first) or after a "," (not first).
ParseElems(s, i, acc, first) ==
    IF i > Len(s) THEN JsonFail
    ELSE IF first /\ s[i] = "]"
        THEN JsonOk(i + 1, <<"[", "]">>, <<>>)
    ELSE
        LET v == ParseValue(s, i) IN
        IF ~v.ok THEN v
        ELSE
            LET j == SkipWs(s, v.next)
                all == Append(acc, v.val)
            IN  IF j > Len(s) THEN JsonFail
                ELSE IF s[j] = "]"
                    THEN JsonOk(j + 1, <<"[">> \o JoinItems(all) \o <<"]">>, all)
                ELSE IF s[j] = "," THEN ParseElems(s, SkipWs(s, j + 1), all, FALSE)
                ELSE JsonFail

\* The rest of an object after "{" (first) or after a "," (not first).
ParseMembers(s, i, acc, first) ==
    IF i > Len(s) THEN JsonFail
    ELSE IF first /\ s[i] = "}"
        THEN JsonOk(i + 1, <<"{", "}">>, <<>>)
    ELSE IF s[i] # "k" THEN JsonFail
    ELSE
        LET v == ParseValue(s, SkipWs(s, i + 1)) IN
        IF ~v.ok THEN v
        ELSE
            LET j == SkipWs(s, v.next)
                all == Append(acc, <<"k">> \o v.val)
            IN  IF j > Len(s) THEN JsonFail
                ELSE IF s[j] = "}"
                    THEN JsonOk(j + 1, <<"{">> \o JoinItems(all) \o <<"}">>, <<>>)
                ELSE IF s[j] = "," THEN ParseMembers(s, SkipWs(s, j + 1), all, FALSE)
                ELSE JsonFail

\* json.loads(s): the whole of s must be one value surrounded by optional
\* whitespace.  ok = FALSE is a raised exception, err its class.
json_loads(s) ==
    LET v == ParseValue(s, SkipWs(s, 1)) IN
    IF v.ok /\ SkipWs(s, v.next) > Len(s)
        THEN [ok |-> TRUE, err |-> "", is_list |-> v.val[1] = "[",
              val |-> v.val, items |-> v.items]
        ELSE [ok |-> FALSE, err |-> IF v.ok THEN "JSONDecodeError" ELSE v.err,
              is_list |-> FALSE, val |-> <<>>, items |-> <<>>]

-----------------------------------------------------------------------------
(* _parse_json_array                                                       *)

RECURSIVE NextBrace(_, _)
\* First position j >= i of s holding "{" or "}" (Len(s)+1 if none).
NextBrace(s, i) ==
    IF i > Len(s) THEN i
    ELSE IF s[i] \in {"{", "}"} THEN i ELSE NextBrace(s, i + 1)

RECURSIVE re_findall_flat(_, _)
\* re.findall(r'\{[^{}]*\}', s): the non-overlapping matches, left to right.
re_findall_flat(s, i) ==
    IF i > Len(s) THEN <<>>
    ELSE IF s[i] = "{"
        THEN LET j == NextBrace(s, i + 1) IN
             IF j <= Len(s) /\ s[j] = "}"
                THEN <<SubSeq(s, i, j)>> \o re_findall_flat(s, j + 1)
                ELSE re_findall_flat(s, i + 1)
    ELSE re_findall_flat(s, i + 1)

\* Mutant of parse_objects: no try/except around each json.loads, so one
\* candidate that does not parse sends the whole salvage to `return []`.
parse_objects_all_or_nothing(objs) ==
    IF \E i \in 1..Len(objs) : ~json_loads(objs[i]).ok THEN <<>>
    ELSE [i \in 1..Len(objs) |-> json_loads(objs[i]).val]

RECURSIVE parse_objects(_)
\* The loop of the salvage branch: keep the candidates json.loads accepts.
parse_objects(objs) ==
    IF objs = <<>> THEN <<>>
    ELSE LET p == json_loads(Head(objs)) IN
         (IF p.ok THEN <<p.val>> ELSE <<>>) \o parse_objects(Tail(objs))

\* The cleaning at the top of the try block.
clean_response(response) ==
    LET cleaned == strip(response) IN
    IF startswith_fence(cleaned)
        THEN strip(re_sub_fence({"F"}, re_sub_fence({"J"}, cleaned, 1), 1))
        ELSE cleaned

\* The body of the except json.JSONDecodeError branch.
salvage_objects(response) ==
    [raised |-> FALSE, value |-> parse_objects(re_findall_flat(response, 1))]

\* The except clause of _parse_json_array: json.JSONDecodeError is handled by
\* the salvage branch, any other exception leaves the function.
except_JSONDecodeError(err, response) ==
    IF err = "JSONDecodeError" THEN salvage_objects(response)
    ELSE [raised |-> TRUE, value |-> <<>>]

_parse_json_array(response) ==
    LET cleaned == clean_response(response)
        json_start == find_open_from(cleaned, 1)
        json_end == rfind(cleaned, "]") + 1
    IN  IF json_start >= 0 /\ json_end > json_start
        THEN LET parsed == json_loads(slice(cleaned, json_start, json_end)) IN
             IF parsed.ok THEN [raised |-> FALSE, value |-> parsed.items]
             ELSE except_JSONDecodeError(parsed.err, response)
        ELSE LET parsed == json_loads(cleaned) IN
             IF parsed.ok
                THEN [raised |-> FALSE,
                      value |-> IF parsed.is_list THEN parsed.items ELSE <<>>]
             ELSE except_JSONDecodeError(parsed.err, response)

-----------------------------------------------------------------------------
(* The completion client _call_ollama.                                     *)

Kinds == {"multiple_choice", "fill_blank", "short_answer"}

\* The three blocks of _generate_quiz_with_llm, in program order.
Blocks == <<"multiple_choice", "fill_blank", "short_answer">>

AllKinds == Kinds \cup {"flashcards"}

\* The LLM's "response" field in the requests of the gateway specification:
\* missing or empty, whitespace only, prose, an empty array, an array of one
\* record, a fenced array of two records, an array holding a number, an
\* array holding a string, a bare object, a text json.loads cannot descend.
Completions ==
    { <<>>,
      <<"w">>,
      <<"x">>,
      <<"[", "]">>,
      <<"w", "[", "{", "k", "s", "}", "]">>,
      <<"J", "w", "[", "{", "k", "s", "}", ",", "{", "}", "]", "w", "F">>,
      <<"[", "1", "]">>,
      <<"[", "s", "]">>,
      <<"{", "k", "s", "}">>,
      <<"D">> }

\* What the HTTP exchange with the LLM service can come to: client.post
\* raises (timeout, connect error, another request error), the status is not
\* a success, the body is not JSON, or the body is a JSON object.
NetFailures == {"timeout", "connect_error", "network_error", "http_error", "bad_body"}

NetOutcomes ==
    [kind : NetFailures, text : {<<>>}] \cup [kind : {"ok"}, text : Completions]

\* A kind the request never sends a prompt for.
Unused == [kind |-> "unused", text |-> <<>>]

\* _call_ollama: ok with the trimmed response text, or the exception raised,
\* named after the except clause that raised it.
_call_ollama(net) ==
    IF net.kind = "timeout"
        THEN [ok |-> FALSE, text |-> <<>>, error |-> "TimeoutException"]
    ELSE IF net.kind = "connect_error"
        THEN [ok |-> FALSE, text |-> <<>>, error |-> "ConnectError"]
    ELSE IF net.kind = "network_error"
        THEN [ok |-> FALSE, text |-> <<>>, error |-> "RequestError"]
    ELSE IF net.kind = "http_error"
        THEN [ok |-> FALSE, text |-> <<>>, error |-> "HTTPStatusError"]
    ELSE IF net.kind = "bad_body"
        THEN [ok |-> FALSE, text |-> <<>>, error |-> "Exception"]
    ELSE LET response_text == strip(net.text) IN
         IF response_text = <<>>
            THEN [ok |-> FALSE, text |-> <<>>, error |-> "Exception"]
            ELSE [ok |-> TRUE, text |-> response_text, error |-> ""]

-----------------------------------------------------------------------------
(* The quiz orchestrator _generate_quiz_with_llm and its endpoint.         *)

\* Request texts: "a" is a visible character, "w" a whitespace character.
RequestTexts == UNION {[1..m -> {"a", "w"}] : m \in 0..MaxTextLen}

QuizTypeInputs ==
    {"multiple_choice", "fill_blank", "short_answer", "all",
     "ALL", "Fill_Blank", "essay", ""}

\* str.lower() on the quiz types a client sends.
lower(q) ==
    IF q = "ALL" THEN "all"
    ELSE IF q = "Fill_Blank" THEN "fill_blank"
    ELSE q

valid_types == {"multiple_choice", "fill_blank", "short_answer", "all"}

\* Mutant of request_text: the text is validated as sent, untrimmed.
request_text_untrimmed(t) == t

\* text = request.text.strip()
request_text(t) == strip(t)

\* if not text
text_missing(t) == Len(t) = 0

\* if quiz_type in [kind, "all"]
requested(kind, qt) == qt \in {kind, "all"}

\* Mutant of next_block: after the multiple-choice block the orchestrator
\* goes round once more and sends the multiple-choice prompt again.
next_block_retrying(i, qt) ==
    IF i = 2 /\ requested("multiple_choice", qt) /\ calls["multiple_choice"] = 1
        THEN 1
    ELSE IF \E j \in i..Len(Blocks) : requested(Blocks[j], qt)
        THEN CHOOSE j \in i..Len(Blocks) :
                 /\ requested(Blocks[j], qt)
                 /\ \A m \in i..(j - 1) : ~requested(Blocks[m], qt)
    ELSE IF i > Len(Blocks) THEN i ELSE Len(Blocks) + 1

RECURSIVE next_block(_, _)
\* The first block at position i or later that the request runs (4 if none).
next_block(i, qt) ==
    IF i > Len(Blocks) THEN i
    ELSE IF requested(Blocks[i], qt) THEN i ELSE next_block(i + 1, qt)

block_index(kind) == CHOOSE i \in 1..Len(Blocks) : Blocks[i] = kind

\* Mutant of no_questions: the emptiness check is missing, as it is in
\* _generate_flashcards_with_llm.
no_questions_unchecked(parsed) == FALSE

\* if not parsed_questions or len(parsed_questions) == 0
no_questions(parsed) == Len(parsed) = 0

\* The structure check of the multiple-choice block: `"options" not in q`
\* raises TypeError when the record q is a number.  (A string or a list that
\* holds the word "options" would raise at q.get; the texts of the model hold
\* none.)
options_check_raises(q) == q[1] = "1"

validation_raises(kind, parsed) ==
    /\ kind = "multiple_choice"
    /\ \E i \in 1..Len(parsed) : options_check_raises(parsed[i])

\* The try body of one block: the completion call, the extraction, the
\* emptiness check and (multiple choice) the structure check.  failed: an
\* exception reached the block's except clause.
block_try(kind, net) ==
    LET response == _call_ollama(net) IN
    IF ~response.ok THEN [failed |-> TRUE, records |-> <<>>]
    ELSE LET parsed_questions == _parse_json_array(response.text) IN
         IF parsed_questions.raised THEN [failed |-> TRUE, records |-> <<>>]
         ELSE IF no_questions(parsed_questions.value)
            THEN [failed |-> TRUE, records |-> <<>>]
         ELSE IF validation_raises(kind, parsed_questions.value)
            THEN [failed |-> TRUE, records |-> <<>>]
         ELSE [failed |-> FALSE, records |-> parsed_questions.value]

\* The except clause of a block: multiple choice always re-raises, the other
\* two only when theirs is the only kind requested.
reraises(kind, qt) ==
    IF kind = "multiple_choice" THEN TRUE ELSE qt = kind

\* result[kind] = parsed_questions
store(res, kind, records) ==
    [k \in (DOMAIN res) \cup {kind} |-> IF k = kind THEN records ELSE res[k]]

\* The check before `return result`: raise when nothing was generated.
final_check_fails(res) ==
    \/ DOMAIN res = {}
    \/ \A k \in DOMAIN res : Len(res[k]) = 0

RECURSIVE sum_len(_, _)
sum_len(res, ks) ==
    IF ks = {} THEN 0
    ELSE LET k == CHOOSE x \in ks : TRUE IN Len(res[k]) + sum_len(res, ks \ {k})

\* total_questions = sum(len(v) for v in quiz_result.values() ...)
total_questions(res) == sum_len(res, DOMAIN res)

NoBody == [success |-> FALSE, quiz |-> <<>>, flashcards |-> <<>>]

\* Mutant of quiz_response: the except clause answers a raised exception
\* with a success that carries an empty quiz.
quiz_response_swallowing(outcome, res) ==
    IF outcome = "raised" \/ DOMAIN res = {}
        THEN [status |-> 200,
              body |-> [success |-> TRUE, quiz |-> <<>>, flashcards |-> <<>>]]
    ELSE [status |-> 200,
          body |-> [success |-> TRUE, quiz |-> res, flashcards |-> <<>>]]

\* generate_quiz after the orchestrator: an exception becomes a 500, so does
\* an empty result; otherwise the result is answered with a 200.
quiz_response(outcome, res) ==
    IF outcome = "raised" THEN [status |-> 500, body |-> NoBody]
    ELSE IF DOMAIN res = {} THEN [status |-> 500, body |-> NoBody]
    ELSE IF total_questions(res) = 0 THEN [status |-> 500, body |-> NoBody]
    ELSE [status |-> 200,
          body |-> [success |-> TRUE, quiz |-> res, flashcards |-> <<>>]]

GatewayIdle ==
    /\ pc = "idle"
    /\ endpoint = "none"
    /\ req = [text |-> <<>>, quiz_type |-> ""]
    /\ text = <<>>
    /\ quiz_type = ""
    /\ ollama = [k \in AllKinds |-> Unused]
    /\ cur = "none"
    /\ sub = [k \in AllKinds |-> "pending"]
    /\ calls = [k \in AllKinds |-> 0]
    /\ result = <<>>
    /\ orc = "none"
    /\ status = 0
    /\ body = NoBody

\* The orchestrator moves on from the block before position i: it issues the
\* completion call of the next requested block and suspends, or, past the
\* last block, runs the final check, returns or raises, and generate_quiz
\* answers.
Continue(i, qt, res, sb) ==
    LET j == next_block(i, qt) IN
    IF j <= Len(Blocks)
    THEN /\ pc' = "await"
         /\ cur' = Blocks[j]
         /\ calls' = [calls EXCEPT ![Blocks[j]] = @ + 1]
         /\ sub' = [sb EXCEPT ![Blocks[j]] = "in_flight"]
         /\ result' = res
         /\ UNCHANGED <<orc, status, body>>
    ELSE LET outcome == IF final_check_fails(res) THEN "raised" ELSE "returned"
             resp == quiz_response(outcome, res)
         IN  /\ pc' = "done"
             /\ cur' = "none"
             /\ sub' = sb
             /\ result' = res
             /\ orc' = outcome
             /\ status' = resp.status
             /\ body' = resp.body
             /\ UNCHANGED calls

\* The environment of a quiz request: an outcome for the prompt of every
\* kind the request asks for.
QuizEnvs(qt) ==
    LET asked == {k \in Kinds : requested(k, qt)} IN
    {[k \in AllKinds |-> IF k \in asked THEN f[k] ELSE Unused] :
        f \in [asked -> NetOutcomes]}

\* POST /api/generate_quiz up to its first suspension: validation, then the
\* orchestrator up to the first completion call.
generate_quiz ==
    /\ pc = "idle"
    /\ \E t \in RequestTexts, q \in QuizTypeInputs :
        LET txt == request_text(t)
            qt == lower(q)
        IN  /\ endpoint' = "quiz"
            /\ req' = [text |-> t, quiz_type |-> q]
            /\ text' = txt
            /\ quiz_type' = qt
            /\ IF text_missing(txt) \/ qt \notin valid_types
               THEN /\ pc' = "done"
                    /\ status' = 400
                    /\ body' = NoBody
                    /\ UNCHANGED <<ollama, cur, sub, calls, result, orc>>
               ELSE /\ \E e \in QuizEnvs(qt) : ollama' = e
                    /\ Continue(1, qt, result, sub)
    /\ UNCHANGED <<extract_vars, rest_vars>>

\* The orchestrator resumes in the block of `kind` when its completion call
\* resolves, and runs on to the next suspension or to the response.
QuizBlock(kind) ==
    /\ pc = "await"
    /\ endpoint = "quiz"
    /\ cur = kind
    /\ LET b == block_try(kind, ollama[kind]) IN
       IF b.failed
       THEN IF reraises(kind, quiz_type)
            THEN LET resp == quiz_response("raised", result) IN
                 /\ pc' = "done"
                 /\ cur' = "none"
                 /\ sub' = [sub EXCEPT ![kind] = "failed"]
                 /\ orc' = "raised"
                 /\ status' = resp.status
                 /\ body' = resp.body
                 /\ UNCHANGED <<calls, result>>
            ELSE Continue(block_index(kind) + 1, quiz_type, result,
                          [sub EXCEPT ![kind] = "failed"])
       ELSE Continue(block_index(kind) + 1, quiz_type,
                     store(result, kind, b.records),
                     [sub EXCEPT ![kind] = "succeeded"])
    /\ UNCHANGED <<endpoint, req, text, quiz_type, ollama, extract_vars, rest_vars>>

multiple_choice_block == QuizBlock("multiple_choice")

fill_blank_block == QuizBlock("fill_blank")

short_answer_block == QuizBlock("short_answer")

-----------------------------------------------------------------------------
(* The flashcards endpoint and _generate_flashcards_with_llm.              *)

\* generate_flashcards after _generate_flashcards_with_llm: an exception
\* becomes a 500, any returned list is answered with a 200.
flashcards_response(raised, flashcards) ==
    IF raised THEN [status |-> 500, body |-> NoBody]
    ELSE [status |-> 200,
          body |-> [success |-> TRUE, quiz |-> <<>>, flashcards |-> flashcards]]

\* POST /api/generate_flashcards up to its suspension.  The HTTPException(400)
\* raised for a missing text is caught by the endpoint's own except Exception
\* clause and answered as a 500.
generate_flashcards ==
    /\ pc = "idle"
    /\ \E t \in RequestTexts :
        LET txt == request_text(t) IN
        /\ endpoint' = "flashcards"
        /\ req' = [text |-> t, quiz_type |-> ""]
        /\ text' = txt
        /\ IF text_missing(txt)
           THEN /\ pc' = "done"
                /\ status' = 500
                /\ body' = NoBody
                /\ UNCHANGED <<ollama, cur, sub, calls>>
           ELSE /\ \E net \in NetOutcomes : ollama' = [ollama EXCEPT !["flashcards"] = net]
                /\ pc' = "await"
                /\ cur' = "flashcards"
                /\ calls' = [calls EXCEPT !["flashcards"] = @ + 1]
                /\ sub' = [sub EXCEPT !["flashcards"] = "in_flight"]
                /\ UNCHANGED <<status, body>>
    /\ UNCHANGED <<quiz_type, result, orc, extract_vars, rest_vars>>

\* _generate_flashcards_with_llm resumes when the completion call resolves.
flashcards_resume ==
    /\ pc = "await"
    /\ endpoint = "flashcards"
    /\ cur = "flashcards"
    /\ LET response == _call_ollama(ollama["flashcards"])
           parsed == IF response.ok THEN _parse_json_array(response.text)
                     ELSE [raised |-> TRUE, value |-> <<>>]
           resp == flashcards_response(parsed.raised, parsed.value)
       IN  /\ pc' = "done"
           /\ cur' = "none"
           /\ sub' = [sub EXCEPT !["flashcards"] =
                         IF parsed.raised THEN "failed" ELSE "succeeded"]
           /\ status' = resp.status
           /\ body' = resp.body
    /\ UNCHANGED <<endpoint, req, text, quiz_type, ollama, calls, result, orc,
                   extract_vars, rest_vars>>

-----------------------------------------------------------------------------
(* The scan endpoint: the image is forwarded to the OCR service.           *)

\* client.post raises an httpx.RequestError: a timeout, a connection error,
\* another transport error.
OcrFailures == {"timeout", "connect_error", "network_error"}

\* What the exchange with the OCR service can come to: client.post raises, or
\* a response arrives with a status code and a body that is not JSON or is a
\* JSON object with a "success" field.
OcrOutcomes ==
    [kind : OcrFailures, code : {0}, success : {FALSE}]
        \cup [kind : {"response"}, code : {200, 400, 500, 503}, success : BOOLEAN]
        \cup [kind : {"bad_body"}, code : {200}, success : {FALSE}]

NoOcr == [kind |-> "unused", code |-> 0, success |-> FALSE]

\* Mutant of scan_response: no except clause for httpx.RequestError, the
\* network error falls to the handler's except Exception clause.
scan_response_unclassified(o) ==
    IF o.kind = "response" /\ o.code = 200 /\ o.success
        THEN [status |-> 200,
              body |-> [success |-> TRUE, quiz |-> <<>>, flashcards |-> <<>>]]
    ELSE [status |-> 500, body |-> NoBody]

\* scan_image once the exchange has resolved.  The HTTPException raised for
\* a status other than 200 and for a body without success is caught by the
\* handler's own except Exception clause and answered as a 500.
scan_response(o) ==
    IF o.kind \in OcrFailures THEN [status |-> 503, body |-> NoBody]
    ELSE IF o.code # 200 THEN [status |-> 500, body |-> NoBody]
    ELSE IF o.kind = "bad_body" THEN [status |-> 500, body |-> NoBody]
    ELSE IF ~o.success THEN [status |-> 500, body |-> NoBody]
    ELSE [status |-> 200,
          body |-> [success |-> TRUE, quiz |-> <<>>, flashcards |-> <<>>]]

\* POST /api/scan up to its suspension in client.post.
scan_image ==
    /\ pc = "idle"
    /\ endpoint' = "scan"
    /\ \E o \in OcrOutcomes : ocr' = o
    /\ pc' = "await"
    /\ cur' = "ocr"
    /\ UNCHANGED <<req, text, quiz_type, ollama, sub, calls, result, orc, status, body>>
    /\ UNCHANGED <<probes, probed, health_body>>
    /\ UNCHANGED <<extract_vars, backend_vars, loop_vars, sizing_vars, more_vars>>

\* scan_image resumes when the exchange with the OCR service resolves.
scan_resume ==
    /\ pc = "await"
    /\ endpoint = "scan"
    /\ LET resp == scan_response(ocr) IN
       /\ status' = resp.status
       /\ body' = resp.body
    /\ pc' = "done"
    /\ cur' = "none"
    /\ UNCHANGED <<endpoint, req, text, quiz_type, ollama, sub, calls, result, orc>>
    /\ UNCHANGED <<extract_vars, rest_vars>>

-----------------------------------------------------------------------------
(* The health endpoint: two synchronous probes.                            *)

\* What requests.get can come to: it raises, or a response arrives.
ProbeOutcomes ==
    [kind : {"raised"}, code : {0}] \cup [kind : {"response"}, code : {200, 404, 500, 503}]

NoProbe == [kind |-> "unused", code |-> 0]

NoHealthBody == [status |-> "", services |-> [ocr |-> "", llm |-> ""]]

\* "healthy" if status_code == 200 else "unhealthy"; "unreachable" in the
\* except clause.
probe_status(p) ==
    IF p.kind = "raised" THEN "unreachable"
    ELSE IF p.code = 200 THEN "healthy"
    ELSE "unhealthy"

\* Mutant of health_checks: one try block around both probes, so that an OCR
\* probe that raises skips the LLM probe.
health_checks_one_try(po, pl) ==
    IF po.kind = "raised"
        THEN [probed |-> {"ocr"},
              services |-> [ocr |-> "unreachable", llm |-> "unreachable"]]
    ELSE [probed |-> {"ocr", "llm"},
          services |-> [ocr |-> probe_status(po), llm |-> probe_status(pl)]]

\* The two try blocks of health, one per probe.
health_checks(po, pl) ==
    [probed |-> {"ocr", "llm"},
     services |-> [ocr |-> probe_status(po), llm |-> probe_status(pl)]]

\* GET /health: both probes are synchronous calls, the handler runs from the
\* request to the response without suspending.
health ==
    /\ pc = "idle"
    /\ endpoint' = "health"
    /\ \E po \in ProbeOutcomes, pl \in ProbeOutcomes :
        LET services_status == health_checks(po, pl) IN
        /\ probes' = [ocr |-> po, llm |-> pl]
        /\ probed' = services_status.probed
        /\ health_body' = [status |-> "healthy", services |-> services_status.services]
    /\ status' = 200
    /\ pc' = "done"
    /\ UNCHANGED <<req, text, quiz_type, ollama, cur, sub, calls, result, orc, body, ocr>>
    /\ UNCHANGED <<extract_vars, backend_vars, loop_vars, sizing_vars, more_vars>>

ScanHealthIdle ==
    /\ ocr = NoOcr
    /\ probes = [ocr |-> NoProbe, llm |-> NoProbe]
    /\ probed = {}
    /\ health_body = NoHealthBody

-----------------------------------------------------------------------------
(* The states before any request of the other components.                  *)

BackendKinds == {"flashcards", "summary", "questions"}

NoContent == [kind |-> "none", val |-> <<>>, items |-> <<>>]

BackendIdle ==
    /\ b_pc = "idle"
    /\ b_req = [text |-> <<>>, content_type |-> ""]
    /\ b_ollama = [k \in BackendKinds |-> Unused]
    /\ b_cur = "none"
    /\ b_calls = [k \in BackendKinds |-> 0]
    /\ b_result = <<>>
    /\ b_status = 0
    /\ b_content = <<>>

LoopIdle ==
    /\ service = "none"
    /\ tasks = <<>>
    /\ holder = 0

SizingIdle ==
    /\ sz_kind = "none"
    /\ sz_len = 0
    /\ sz_range = <<0, 0>>

ConcurrentIdle ==
    /\ flows = <<>>
    /\ dicts = <<>>

UploadIdle ==
    /\ u_service = "none"
    /\ whisper_api = FALSE
    /\ uploads = <<>>
    /\ files = <<>>
    /\ inodes = <<>>

MoreIdle == ConcurrentIdle /\ UploadIdle

RestIdle == ScanHealthIdle /\ BackendIdle /\ LoopIdle /\ SizingIdle /\ MoreIdle

\* No call of the extractor has been recorded.
NotRun == [done |-> FALSE, raised |-> FALSE, value |-> <<>>]

Init ==
    /\ raw = <<>>
    /\ parsed_out = NotRun
    /\ GatewayIdle
    /\ RestIdle

Next ==
    \/ generate_quiz
    \/ multiple_choice_block
    \/ fill_blank_block
    \/ short_answer_block
    \/ generate_flashcards
    \/ flashcards_resume
    \/ scan_image
    \/ scan_resume
    \/ health

Spec == Init /\ [][Next]_vars

-----------------------------------------------------------------------------
(* What the claims about the gateway speak of, defined on the request and  *)
(* on what the LLM service does, not through the handler's steps.          *)

\* Empty after trimming.
Blank(t) == \A i \in 1..Len(t) : t[i] = "w"

\* The quiz type names a kind or "all", in any letter case.
NamesQuizType(q) ==
    q \in {"multiple_choice", "fill_blank", "short_answer", "all", "ALL", "Fill_Blank"}

QuizAnswered == pc = "done" /\ endpoint = "quiz"

ValidQuizAnswered ==
    QuizAnswered /\ ~Blank(req.text) /\ NamesQuizType(req.quiz_type)

\* The completion call fails: timeout, connection error, upstream error,
\* malformed body, empty response.
CompletionFails(net) == net.kind \in NetFailures \/ Blank(net.text)

\* What extraction makes of a completion that did not fail.
Extracted(net) == _parse_json_array(strip(net.text))

\* The completion succeeds and extraction yields zero records.
ZeroRecords(net) ==
    /\ ~CompletionFails(net)
    /\ (Extracted(net).raised \/ Extracted(net).value = <<>>)

\* The completion succeeds and extraction yields at least one record.
YieldsRecords(net) ==
    /\ ~CompletionFails(net)
    /\ ~Extracted(net).raised
    /\ Extracted(net).value # <<>>

\* ... and every record is a JSON object.
YieldsObjects(net) ==
    /\ YieldsRecords(net)
    /\ \A i \in 1..Len(Extracted(net).value) : Extracted(net).value[i][1] = "{"

-----------------------------------------------------------------------------
(* Claims about the gateway, checked under Spec.                           *)

\* C1: for quiz_type "all", the failure of any one sub-task (completion
\* failure or zero extracted records) does not fail the aggregate as long as
\* at least one other sub-task yields a non-empty record list: the request
\* succeeds.  Stated for the outcomes the claim distinguishes: every
\* sub-task's completion fails, extracts to nothing, or extracts to objects.
C1_OneFailureDoesNotFailAll ==
    (/\ ValidQuizAnswered
     /\ quiz_type = "all"
     /\ \A k \in Kinds :
            CompletionFails(ollama[k]) \/ ZeroRecords(ollama[k]) \/ YieldsObjects(ollama[k])
     /\ \E f \in Kinds :
            /\ CompletionFails(ollama[f]) \/ ZeroRecords(ollama[f])
            /\ \E k \in Kinds \ {f} : YieldsObjects(ollama[k]))
    => (status = 200 /\ body.success)

\* C2: a quiz request that names exactly one kind and whose sub-task fails
\* (the completion call fails or extraction yields zero records) is answered
\* with an error; it is never answered with a success whose question list is
\* empty or missing.
C2_SingleKindFailureFails ==
    (ValidQuizAnswered /\ quiz_type \in Kinds) =>
        /\ (CompletionFails(ollama[quiz_type]) \/ ZeroRecords(ollama[quiz_type]))
               => (status = 500 /\ ~body.success)
        /\ status = 200 =>
               (DOMAIN body.quiz = {quiz_type} /\ body.quiz[quiz_type] # <<>>)

\* C2 witness: a short_answer request whose completion was an empty array has
\* been answered 500 after one completion call.
C2_Witness ==
    /\ ValidQuizAnswered
    /\ quiz_type = "short_answer"
    /\ ollama["short_answer"] = [kind |-> "ok", text |-> <<"[", "]">>]
    /\ calls["short_answer"] = 1
    /\ status = 500

\* C3: a quiz request with quiz_type "all" whose three sub-tasks all fail or
\* yield zero records fails; a success response never carries a quiz mapping
\* that is empty or holds only empty lists.
C3_AllFailingFails ==
    (ValidQuizAnswered /\ quiz_type = "all") =>
        /\ (\A k \in Kinds : CompletionFails(ollama[k]) \/ ZeroRecords(ollama[k]))
               => (status = 500 /\ ~body.success)
        /\ status = 200 => \E k \in DOMAIN body.quiz : body.quiz[k] # <<>>

\* C3 witness: an "all" request has been answered 500 with the LLM timing out
\* on one prompt and answering the two others with prose and an empty array.
C3_Witness ==
    /\ ValidQuizAnswered
    /\ quiz_type = "all"
    /\ ollama["multiple_choice"] = [kind |-> "ok", text |-> <<"x">>]
    /\ ollama["fill_blank"] = [kind |-> "timeout", text |-> <<>>]
    /\ ollama["short_answer"] = [kind |-> "ok", text |-> <<"[", "]">>]
    /\ status = 500

\* C4: for quiz_type "all" the sub-tasks are independent: each of the three
\* has its completion call issued and reaches a terminal state (succeeded or
\* failed) whatever the outcome of its siblings.
C4_EverySubtaskAttempted ==
    (ValidQuizAnswered /\ quiz_type = "all") =>
        \A k \in Kinds : calls[k] = 1 /\ sub[k] \in {"succeeded", "failed"}

\* C5: whenever the orchestrator returns, the returned mapping has a key for
\* kind k if and only if k was requested and k's sub-task yielded at least
\* one extracted record; no key maps to an empty list, no unrequested kind is
\* present, and the mapping is what the response carries.
C5_KeysAreTheRequestedKindsThatYielded ==
    orc = "returned" =>
        /\ DOMAIN result \subseteq Kinds
        /\ \A k \in Kinds :
              /\ (k \in DOMAIN result) <=>
                     (quiz_type \in {k, "all"} /\ YieldsRecords(ollama[k]))
              /\ k \in DOMAIN result => result[k] = Extracted(ollama[k]).value
        /\ status = 200
        /\ body.quiz = result

\* C5 witness: an "all" request has returned with multiple_choice and
\* short_answer only, fill_blank having failed.
C5_Witness ==
    /\ orc = "returned"
    /\ quiz_type = "all"
    /\ sub["fill_blank"] = "failed"
    /\ DOMAIN result = {"multiple_choice", "short_answer"}

\* C6: the quiz endpoint answers 400 to a request whose text is empty after
\* trimming or whose quiz_type, compared case-insensitively, is none of
\* multiple_choice, fill_blank, short_answer, all; no completion call is
\* issued for such a request.
C6_InvalidRejectedBeforeAnyCall ==
    (QuizAnswered /\ (Blank(req.text) \/ ~NamesQuizType(req.quiz_type))) =>
        /\ status = 400
        /\ \A k \in AllKinds : calls[k] = 0 /\ sub[k] = "pending"

\* C6 witness: a request with a whitespace-only text and a valid quiz type
\* has been answered.
C6_Witness ==
    /\ QuizAnswered
    /\ req.text = <<"w">>
    /\ req.quiz_type = "all"
    /\ status = 400

\* C7: a flashcards request whose completion succeeds but whose extraction
\* yields zero records is a failure: the endpoint never answers success with
\* an empty flashcards list.
C7_EmptyFlashcardsFail ==
    (pc = "done" /\ endpoint = "flashcards" /\ ~Blank(req.text)) =>
        /\ ZeroRecords(ollama["flashcards"]) => (status # 200 /\ ~body.success)
        /\ status = 200 => body.flashcards # <<>>

\* The failure tag a raised completion call carries: the except clause of
\* _call_ollama that raised it.  The last clause, except Exception, is the
\* generic one.
FailureTag(r) ==
    IF r.error = "TimeoutException" THEN "timeout"
    ELSE IF r.error \in {"ConnectError", "RequestError"} THEN "connection-unreachable"
    ELSE IF r.error = "HTTPStatusError" THEN "upstream-error"
    ELSE "unclassified"

\* C13: every way the completion call can fail is reported as exactly one of
\* timeout, connection-unreachable, upstream-error, empty-response; no
\* failure falls into an unclassified generic bucket, and an empty response
\* is reported as empty-response.
C13_EveryFailureClassified ==
    \A k \in AllKinds :
        (sub[k] = "failed" /\ CompletionFails(ollama[k])) =>
            LET r == _call_ollama(ollama[k]) IN
            /\ ~r.ok
            /\ FailureTag(r) \in
                   {"timeout", "connection-unreachable", "upstream-error", "empty-response"}
            /\ (ollama[k].kind = "ok" /\ Blank(ollama[k].text)) =>
                   FailureTag(r) = "empty-response"

\* C14: for quiz_type "all" the three completion calls are issued together:
\* no sub-task's call waits for a sibling's call to resolve, so whenever the
\* request is suspended in a completion call all three calls have been
\* issued and more than one sub-task is in flight or already resolved.
C14_SubtasksIssuedTogether ==
    (endpoint = "quiz" /\ pc = "await" /\ quiz_type = "all") =>
        \A k \in Kinds : calls[k] = 1 /\ sub[k] # "pending"

\* C18: when the scan endpoint's exchange with the OCR service raises a
\* network-level request error (timeout, connection error, other transport
\* error), the endpoint answers 503, never 200 or 500.
C18_OcrNetworkErrorIs503 ==
    (endpoint = "scan" /\ pc = "done" /\ ocr.kind \in OcrFailures) =>
        (status = 503 /\ ~body.success)

\* C18 witness: a scan request whose exchange with the OCR service hit a
\* connection error has been answered 503.
C18_Witness ==
    /\ endpoint = "scan"
    /\ pc = "done"
    /\ ocr.kind = "connect_error"
    /\ status = 503

\* C19: /health always answers 200 with overall status "healthy"; it probes
\* both services on every call and reports each one "healthy" exactly when
\* its probe returned status 200, "unhealthy" when it returned another
\* status, "unreachable" when the probe raised.
C19_HealthAlwaysAnswers ==
    (endpoint = "health" /\ pc = "done") =>
        /\ status = 200
        /\ health_body.status = "healthy"
        /\ probed = {"ocr", "llm"}
        /\ \A sv \in {"ocr", "llm"} :
              /\ health_body.services[sv] = "healthy" <=>
                     (probes[sv].kind = "response" /\ probes[sv].code = 200)
              /\ health_body.services[sv] = "unhealthy" <=>
                     (probes[sv].kind = "response" /\ probes[sv].code # 200)
              /\ health_body.services[sv] = "unreachable" <=> probes[sv].kind = "raised"

\* C19 witness: /health has answered with the OCR probe having raised and the
\* LLM probe having returned 503.
C19_Witness ==
    /\ endpoint = "health"
    /\ pc = "done"
    /\ probes.ocr.kind = "raised"
    /\ probes.llm = [kind |-> "response", code |-> 503]
    /\ health_body.services = [ocr |-> "unreachable", llm |-> "unhealthy"]

\* Completion calls issued for the quiz kinds so far.
QuizCalls(c) == c["multiple_choice"] + c["fill_blank"] + c["short_answer"]

\* C20: every sub-task of a quiz request follows pending -> in-flight ->
\* {succeeded | failed} with no retry: a step issues a call exactly when it
\* takes a sub-task from pending to in-flight, at most one call is issued per
\* kind (at most 1 for a single-kind request, at most 3 for "all"), and a
\* terminal state is never left.
C20_NoRetry ==
    [][ /\ \A k \in Kinds :
              /\ sub[k] = "pending" => sub'[k] \in {"pending", "in_flight"}
              /\ sub[k] = "in_flight" => sub'[k] \in {"in_flight", "succeeded", "failed"}
              /\ sub[k] \in {"succeeded", "failed"} => sub'[k] = sub[k]
              /\ calls'[k] = calls[k] +
                     (IF sub[k] = "pending" /\ sub'[k] = "in_flight" THEN 1 ELSE 0)
              /\ calls'[k] <= 1
        /\ QuizCalls(calls') <= (IF quiz_type' \in Kinds THEN 1 ELSE 3)
      ]_vars

\* C20 witness: an "all" request has been answered after exactly one call per
\* kind, its fill_blank sub-task having failed and stayed failed.
C20_Witness ==
    /\ QuizAnswered
    /\ quiz_type = "all"
    /\ sub["fill_blank"] = "failed"
    /\ sub["short_answer"] = "succeeded"
    /\ \A k \in Kinds : calls[k] = 1

\* C21: for the multiple_choice sub-task, record-shape validation only
\* warns: whenever extraction yields a non-empty sequence, that sequence,
\* unchanged and in order, becomes the aggregate's multiple_choice entry
\* whatever the JSON type of its elements; a non-conforming element never
\* fails the sub-task.
C21_ShapeValidationOnlyWarns ==
    (/\ endpoint = "quiz"
     /\ sub["multiple_choice"] \in {"succeeded", "failed"}
     /\ YieldsRecords(ollama["multiple_choice"])) =>
        /\ sub["multiple_choice"] = "succeeded"
        /\ "multiple_choice" \in DOMAIN result
        /\ result["multiple_choice"] = Extracted(ollama["multiple_choice"]).value

\* C24 (the gateway flashcards endpoint decides it): a request whose text is
\* empty or whitespace-only is answered with status 400, not with 500.
C24_BlankTextIs400 ==
    (endpoint = "flashcards" /\ pc = "done" /\ Blank(req.text)) => status = 400

\* C25: when the OCR service answers an upload with a non-200 status s, the
\* scan endpoint's response to its caller carries that same status s.
C25_OcrStatusPassedThrough ==
    (endpoint = "scan" /\ pc = "done" /\ ocr.kind = "response" /\ ocr.code # 200) =>
        status = ocr.code

-----------------------------------------------------------------------------
(* Extractor specification: every text up to MaxLen tokens is extracted.   *)

\* Longer completion texts: the scenarios of the tests and of the design
\* document, an array of three different elements, a truncated array, prose
\* with a record and a non-record in braces, an object holding two arrays.
SampleTexts ==
    { <<"x", "w", "[", "{", "k", "s", "}", "]", "w", "x">>,
      <<"J", "w", "[", "{", "k", "1", "}", "]", "w", "F">>,
      <<"x", "{", "x", "[", "1", ",", "{", "}", ",", "[", "]", "]", "}", "x">>,
      <<"[", "{", "k", "s", "}", ",", "{", "}", ",", "{", "k">>,
      <<"x", "{", "k", "s", "}", "w", "{", "x", "}">>,
      <<"{", "k", "[", "1", "]", ",", "k", "[", "1", "]", "}">>,
      <<"{", "k", "{", "k", "1", "}", "}">> }

InitExtract ==
    /\ raw \in Texts(MaxLen) \cup SampleTexts
    /\ parsed_out = NotRun
    /\ GatewayIdle
    /\ RestIdle

Extract ==
    /\ ~parsed_out.done
    /\ LET r == _parse_json_array(raw) IN
       parsed_out' = [done |-> TRUE, raised |-> r.raised, value |-> r.value]
    /\ UNCHANGED <<raw, gateway_vars, rest_vars>>

NextExtract == Extract

SpecExtract == InitExtract /\ [][NextExtract]_vars

-----------------------------------------------------------------------------
(* What the claims about the extractor speak of, defined on the text       *)
(* itself and not through the code's steps.                                *)

\* The substring t[i..j] is a well-formed JSON array.
IsArrayAt(t, i, j) ==
    /\ t[i] = "["
    /\ t[j] = "]"
    /\ json_loads(SubSeq(t, i, j)).ok

ArraySpans(t) ==
    {sp \in (1..Len(t)) \X (1..Len(t)) : sp[1] < sp[2] /\ IsArrayAt(t, sp[1], sp[2])}

\* No substring of t is a JSON value.
NoParseableJson(t) ==
    \A i \in 1..Len(t) : \A j \in i..Len(t) : ~json_loads(SubSeq(t, i, j)).ok

\* t[lo..hi] holds no "[" and no "]".
NoBracket(t, lo, hi) == \A m \in lo..hi : t[m] \notin {"[", "]", "D"}

\* The substring t[i..j] is a syntactically valid flat JSON object.
FlatObjectAt(t, i, j) ==
    /\ t[i] = "{"
    /\ t[j] = "}"
    /\ \A m \in (i + 1)..(j - 1) : t[m] \notin {"{", "}"}
    /\ json_loads(SubSeq(t, i, j)).ok

RECURSIVE FlatObjectsFrom(_, _)
\* The flat objects of t that start at position i or later, parsed, in order.
FlatObjectsFrom(t, i) ==
    IF i > Len(t) THEN <<>>
    ELSE LET js == {j \in (i + 1)..Len(t) : FlatObjectAt(t, i, j)} IN
         (IF js = {} THEN <<>>
          ELSE <<json_loads(SubSeq(t, i, CHOOSE j \in js : TRUE)).val>>)
         \o FlatObjectsFrom(t, i + 1)

FlatObjects(t) == FlatObjectsFrom(t, 1)

\* The text json.loads is first tried on: the "[".."]" window of the cleaned
\* text when there is one, the whole cleaned text otherwise.
HasWindow(t) ==
    \E i \in 1..Len(t) : \E j \in i..Len(t) : t[i] \in {"[", "D"} /\ t[j] = "]"

FirstAttempt(t) ==
    LET cleaned == clean_response(t) IN
    IF HasWindow(cleaned)
        THEN json_loads(SubSeq(cleaned,
                 CHOOSE i \in 1..Len(cleaned) :
                     /\ cleaned[i] \in {"[", "D"}
                     /\ \A m \in 1..(i - 1) : cleaned[m] \notin {"[", "D"},
                 CHOOSE j \in 1..Len(cleaned) :
                     /\ cleaned[j] = "]"
                     /\ \A m \in (j + 1)..Len(cleaned) : cleaned[m] # "]"))
        ELSE json_loads(cleaned)

-----------------------------------------------------------------------------
(* Claims about the extractor, checked under SpecExtract.                  *)

\* C8: _parse_json_array is total: for every input string it returns a list
\* and never raises to its caller, and for a text that contains no parseable
\* JSON at all it returns the empty list.
C8_ExtractIsTotal ==
    parsed_out.done =>
        /\ ~parsed_out.raised
        /\ NoParseableJson(raw) => parsed_out.value = <<>>

\* C9 as stated: for every text that consists of one well-formed JSON array
\* preceded or followed by arbitrary prose (brackets and braces allowed in
\* the prose), _parse_json_array returns exactly the elements of that array,
\* in the array's order.  The one array of the text is the array substring
\* that contains every other array substring.  Stated for the texts
\* json.loads can descend, where no call raises.
C9_ArrayAmidAnyProse ==
    (parsed_out.done /\ \A i \in 1..Len(raw) : raw[i] # "D") =>
        \A sp \in ArraySpans(raw) :
            (\A o \in ArraySpans(raw) : sp[1] <= o[1] /\ o[2] <= sp[2]) =>
                /\ ~parsed_out.raised
                /\ parsed_out.value = json_loads(SubSeq(raw, sp[1], sp[2])).items

\* C9 amended: for every text that consists of one well-formed JSON array,
\* optionally wrapped in code-fence markers and preceded or followed by prose
\* that holds no "[" and no "]" (braces allowed), _parse_json_array returns
\* exactly the elements of that array, in the array's order.
C9_ArrayAmidBracketFreeProse ==
    parsed_out.done =>
        \A sp \in ArraySpans(raw) :
            (NoBracket(raw, 1, sp[1] - 1) /\ NoBracket(raw, sp[2] + 1, Len(raw))) =>
                /\ ~parsed_out.raised
                /\ parsed_out.value = json_loads(SubSeq(raw, sp[1], sp[2])).items

\* C9 witness: an array of three different elements, with prose that holds
\* braces before and after it, has been extracted in order.
C9_Witness ==
    /\ parsed_out.done
    /\ raw = <<"x", "{", "x", "[", "1", ",", "{", "}", ",", "[", "]", "]", "}", "x">>
    /\ parsed_out.value = << <<"1">>, <<"{", "}">>, <<"[", "]">> >>

\* C10 as stated: for every text that contains no valid JSON array but
\* contains N >= 0 syntactically valid flat JSON object substrings,
\* _parse_json_array returns exactly those N parsed objects in their order of
\* appearance, a single bare object included.  Stated for the texts
\* json.loads can descend, where no call raises.
C10_FlatObjectsAlways ==
    (parsed_out.done /\ ArraySpans(raw) = {} /\ \A i \in 1..Len(raw) : raw[i] # "D") =>
        /\ ~parsed_out.raised
        /\ parsed_out.value = FlatObjects(raw)

\* C10 amended: for every text that contains no valid JSON array, also not
\* once its code-fence markers are removed, _parse_json_array returns exactly
\* the N parsed flat objects in their order of appearance whenever its
\* json.loads attempt (on the "[".."]" window of the cleaned text, else on the
\* whole cleaned text) fails with a JSONDecodeError; when that attempt
\* succeeds (the cleaned text has no window and is one JSON value, such as a
\* single bare object) it returns the empty list; when that attempt raises
\* another error, the call raises.
C10_FlatObjectsWhenSalvaging ==
    (/\ parsed_out.done
     /\ ArraySpans(raw) = {}
     /\ ArraySpans(clean_response(raw)) = {}) =>
        LET p == FirstAttempt(raw) IN
        IF p.ok THEN ~parsed_out.raised /\ parsed_out.value = <<>>
        ELSE IF p.err = "JSONDecodeError"
            THEN ~parsed_out.raised /\ parsed_out.value = FlatObjects(raw)
        ELSE parsed_out.raised

\* C10 witness: a truncated array (no "]") with two flat objects and the start
\* of a third has been salvaged into the two objects, in order.
C10_Witness ==
    /\ parsed_out.done
    /\ raw = <<"[", "{", "k", "s", "}", ",", "{", "}", ",", "{", "k">>
    /\ ArraySpans(raw) = {}
    /\ parsed_out.value = << <<"{", "k", "s", "}">>, <<"{", "}">> >>

\* C22: when the "[".."]" window is absent or fails to parse and the whole
\* cleaned text parses as a JSON value that is not an array, the extractor
\* returns the empty list: salvage runs only when direct parsing of the whole
\* cleaned text fails too.  Stated for the texts json.loads can descend.
C22_DirectParseBeforeSalvage ==
    (parsed_out.done /\ \A i \in 1..Len(raw) : raw[i] # "D") =>
        LET cleaned == clean_response(raw)
            whole == json_loads(cleaned)
        IN  (/\ whole.ok
             /\ ~whole.is_list
             /\ (~HasWindow(cleaned) \/ ~FirstAttempt(raw).ok)) =>
                (~parsed_out.raised /\ parsed_out.value = <<>>)

-----------------------------------------------------------------------------
(* The backend service: AIService and the generate-content endpoint        *)
(* (src/backend/services/ai_service.py, src/backend/main.py).              *)

\* The LLM's "response" field in the requests of the backend specification:
\* those of the gateway specification, a bare number and a bare string.
BackendCompletions == Completions \cup { <<"1">>, <<"s">> }

BackendOutcomes ==
    [kind : NetFailures, text : {<<>>}] \cup [kind : {"ok"}, text : BackendCompletions]

\* AIService._call_ollama: requests.post, raise_for_status, response.json and
\* result.get("response", "").strip() in one try; any exception is raised
\* again, the trimmed text is returned as it is, empty or not.
AIService_call_ollama(net) ==
    IF net.kind \in NetFailures THEN [ok |-> FALSE, text |-> <<>>]
    ELSE [ok |-> TRUE, text |-> strip(net.text)]

\* The record the except json.JSONDecodeError clause of generate_flashcards
\* and of generate_questions builds: an object of two keyed strings, the
\* second one the first 200 characters of the response.
fallback_record == <<"{", "k", "s", ",", "k", "s", "}">>

Raised == [raised |-> TRUE, content |-> NoContent]

Returned(kind, val, items) ==
    [raised |-> FALSE, content |-> [kind |-> kind, val |-> val, items |-> items]]

\* The inline parsing of generate_flashcards and generate_questions: the
\* window from the first "[" to the last "]", else the whole response, goes
\* to json.loads; len() of the value is logged, which raises TypeError for a
\* number; the value is returned whatever its type; a JSONDecodeError is
\* answered with the fallback record; any other exception leaves the method
\* through its outer except clause.
inline_parse(response) ==
    LET json_start == find_open_from(response, 1)
        json_end == rfind(response, "]") + 1
        parsed == IF json_start >= 0 /\ json_end > json_start
                     THEN json_loads(slice(response, json_start, json_end))
                     ELSE json_loads(response)
    IN  IF parsed.ok
        THEN IF parsed.val[1] = "1" THEN Raised
             ELSE IF parsed.is_list THEN Returned("list", parsed.val, parsed.items)
             ELSE Returned("value", parsed.val, <<>>)
        ELSE IF parsed.err = "JSONDecodeError"
            THEN Returned("fallback", <<"[">> \o fallback_record \o <<"]">>,
                          <<fallback_record>>)
        ELSE Raised

AIService_generate_flashcards(net) ==
    LET response == AIService_call_ollama(net) IN
    IF ~response.ok THEN Raised ELSE inline_parse(response.text)

\* generate_summary returns the completion text as the summary.
AIService_generate_summary(net) ==
    LET summary == AIService_call_ollama(net) IN
    IF ~summary.ok THEN Raised ELSE Returned("text", summary.text, <<>>)

AIService_generate_questions(net) ==
    LET response == AIService_call_ollama(net) IN
    IF ~response.ok THEN Raised ELSE inline_parse(response.text)

AIService_generate(kind, net) ==
    IF kind = "flashcards" THEN AIService_generate_flashcards(net)
    ELSE IF kind = "summary" THEN AIService_generate_summary(net)
    ELSE AIService_generate_questions(net)

\* The three blocks of generate_content, in program order.
ContentBlocks == <<"flashcards", "summary", "questions">>

ContentTypeInputs == {"flashcards", "summary", "questions", "all", "ALL", "essay", ""}

\* if not text or len(text.strip()) == 0
content_text_missing(t) == Len(t) = 0 \/ Len(strip(t)) = 0

\* A variant whose summary block leaves "all" out of its list.
content_requested_summary_alone(kind, ct) ==
    IF kind = "summary" THEN ct = "summary" ELSE ct \in {kind, "all"}

\* if content_type in [kind, "all"]
content_requested(kind, ct) == ct \in {kind, "all"}

RECURSIVE content_next_block(_, _)
content_next_block(i, ct) ==
    IF i > Len(ContentBlocks) THEN i
    ELSE IF content_requested(ContentBlocks[i], ct) THEN i
    ELSE content_next_block(i + 1, ct)

content_block_index(kind) == CHOOSE i \in 1..Len(ContentBlocks) : ContentBlocks[i] = kind

\* generate_content moves on from the block before position i: it calls the
\* next requested generator, or, past the last block, answers 200 with the
\* result, empty or not.
ContentContinue(i, ct, res) ==
    LET j == content_next_block(i, ct) IN
    IF j <= Len(ContentBlocks)
    THEN /\ b_pc' = "await"
         /\ b_cur' = ContentBlocks[j]
         /\ b_calls' = [b_calls EXCEPT ![ContentBlocks[j]] = @ + 1]
         /\ b_result' = res
         /\ UNCHANGED <<b_status, b_content>>
    ELSE /\ b_pc' = "done"
         /\ b_cur' = "none"
         /\ b_result' = res
         /\ b_status' = 200
         /\ b_content' = res
         /\ UNCHANGED b_calls

ContentEnvs(ct) ==
    LET asked == {k \in BackendKinds : content_requested(k, ct)} IN
    {[k \in BackendKinds |-> IF k \in asked THEN f[k] ELSE Unused] :
        f \in [asked -> BackendOutcomes]}

\* POST /api/generate-content up to its first completion call.  The
\* HTTPException(400) raised for a missing text is caught by the endpoint's
\* own except Exception clause and answered as a 500; the content type is
\* not checked.
generate_content ==
    /\ b_pc = "idle"
    /\ \E t \in RequestTexts, ct \in ContentTypeInputs :
        /\ b_req' = [text |-> t, content_type |-> ct]
        /\ IF content_text_missing(t)
           THEN /\ b_pc' = "done"
                /\ b_status' = 500
                /\ UNCHANGED <<b_ollama, b_cur, b_calls, b_result, b_content>>
           ELSE /\ \E e \in ContentEnvs(ct) : b_ollama' = e
                /\ ContentContinue(1, ct, <<>>)
    /\ UNCHANGED <<extract_vars, gateway_vars, scan_health_vars, loop_vars, sizing_vars, more_vars>>

\* generate_content goes on when the completion call of `kind` resolves.
ContentBlock(kind) ==
    /\ b_pc = "await"
    /\ b_cur = kind
    /\ LET g == AIService_generate(kind, b_ollama[kind]) IN
       IF g.raised
       THEN /\ b_pc' = "done"
            /\ b_cur' = "none"
            /\ b_status' = 500
            /\ UNCHANGED <<b_calls, b_result, b_content>>
       ELSE ContentContinue(content_block_index(kind) + 1, b_req.content_type,
                            store(b_result, kind, g.content))
    /\ UNCHANGED <<b_req, b_ollama>>
    /\ UNCHANGED <<extract_vars, gateway_vars, scan_health_vars, loop_vars, sizing_vars, more_vars>>

flashcards_content == ContentBlock("flashcards")

summary_content == ContentBlock("summary")

questions_content == ContentBlock("questions")

InitBackend ==
    /\ raw = <<>>
    /\ parsed_out = NotRun
    /\ GatewayIdle
    /\ RestIdle

NextBackend ==
    \/ generate_content
    \/ flashcards_content
    \/ summary_content
    \/ questions_content

SpecBackend == InitBackend /\ [][NextBackend]_vars

-----------------------------------------------------------------------------
(* Claims about the backend, checked under SpecBackend.                    *)

\* The record rec is the parse of a substring of the text t.
ParsedFrom(rec, t) ==
    \E i \in 1..Len(t) : \E j \in i..Len(t) :
        LET p == json_loads(SubSeq(t, i, j)) IN p.ok /\ p.val = rec

\* The records a generator's return value holds: the elements of a list, the
\* value itself otherwise.
RecordsOf(content) ==
    IF content.kind \in {"list", "fallback"} THEN content.items ELSE <<content.val>>

\* The completion call of kind k has been issued and has resolved.
ContentResolved(k) == b_calls[k] = 1 /\ b_cur # k

\* C11 (backend half decides it): extraction never fabricates data: every
\* record generate_flashcards and generate_questions return to the caller is
\* the parse of a substring of the completion text, and on a parse failure no
\* record is synthesized in its place.  Stated for the completions that are
\* not empty (what becomes of an empty one is C12's subject).
C11_NoFabricatedRecord ==
    \A k \in {"flashcards", "questions"} :
        (k \in DOMAIN b_result /\ ~Blank(b_ollama[k].text)) =>
            /\ b_result[k].kind # "fallback"
            /\ \A n \in 1..Len(RecordsOf(b_result[k])) :
                   ParsedFrom(RecordsOf(b_result[k])[n], strip(b_ollama[k].text))

\* C12 (backend half decides it): when the LLM endpoint answers successfully
\* with a missing, empty or whitespace-only response, _call_ollama signals a
\* failure: nothing is stored for that kind and the request is not answered
\* with a success.
C12_EmptyResponseIsFailure ==
    \A k \in BackendKinds :
        (ContentResolved(k) /\ b_ollama[k].kind = "ok" /\ Blank(b_ollama[k].text)) =>
            /\ k \notin DOMAIN b_result
            /\ b_pc = "done" => b_status # 200

\* C17: generate-content rejects a request whose content_type is outside
\* {flashcards, summary, questions, all} before any generation runs; such a
\* request never receives a success response.
C17_UnknownContentTypeRejected ==
    (b_pc = "done" /\ b_req.content_type \notin {"flashcards", "summary", "questions", "all"}) =>
        /\ b_status # 200
        /\ \A k \in BackendKinds : b_calls[k] = 0

\* C26: generate_flashcards and generate_questions return a list for every
\* completion text: whatever the LLM emits (an array, a bare object, a
\* scalar, prose or nothing) the value returned is a list of records, and a
\* parse problem never becomes a raised error.
C26_GeneratorsAlwaysReturnList ==
    \A k \in {"flashcards", "questions"} :
        (ContentResolved(k) /\ b_ollama[k].kind = "ok") =>
            /\ k \in DOMAIN b_result
            /\ b_result[k].kind \in {"list", "fallback"}

\* C28: generate-content with content_type "all" is sequential and
\* all-or-nothing: flashcards, summary and questions are generated in that
\* order, each started only after the one before it returned; a success
\* response holds all three keys; a failing generation fails the request
\* with status 500 and the generations after it are not started.
C28_AllIsSequentialAllOrNothing ==
    (b_pc # "idle" /\ b_req.content_type = "all") =>
        /\ \A i \in 2..Len(ContentBlocks) :
              b_calls[ContentBlocks[i]] > 0 =>
                  /\ ContentBlocks[i - 1] \in DOMAIN b_result
                  /\ b_calls[ContentBlocks[i - 1]] = 1
        /\ (b_pc = "done" /\ b_status = 200) => DOMAIN b_content = BackendKinds
        /\ \A i \in 1..Len(ContentBlocks) :
              (/\ ContentResolved(ContentBlocks[i])
               /\ b_ollama[ContentBlocks[i]].kind \in NetFailures) =>
                  /\ b_pc = "done"
                  /\ b_status = 500
                  /\ \A j \in (i + 1)..Len(ContentBlocks) : b_calls[ContentBlocks[j]] = 0

\* An "all" request whose summary generation failed after the flashcards
\* were returned: answered 500, the questions never asked for.
C28_Witness ==
    /\ b_req.content_type = "all"
    /\ b_pc = "done"
    /\ b_status = 500
    /\ "flashcards" \in DOMAIN b_result
    /\ b_calls["summary"] = 1
    /\ b_ollama["summary"].kind \in NetFailures
    /\ b_calls["questions"] = 0

-----------------------------------------------------------------------------
(* The event loop: both services are one uvicorn process whose handlers    *)
(* are coroutines on one loop thread.  A handler that awaits an httpx call *)
(* suspends and leaves the thread to the loop; a handler that makes a call *)
(* with the synchronous requests library keeps the thread until the call   *)
(* returns.                                                                *)

\* Inbound requests the process is sent.
NRequests == 2

Requests == 1..NRequests

\* The endpoints of each service that call another service.
Endpoints(sv) ==
    IF sv = "gateway"
        THEN {"health", "scan", "generate_quiz", "generate_quiz_all",
              "summary", "generate_flashcards"}
        ELSE {"generate_content", "generate_content_all"}

\* The external calls a handler makes, in order: "await" for an awaited
\* httpx.AsyncClient call (scan_image, the gateway's _call_ollama), "sync" for
\* a call of the requests library (the two probes of health, requests.post in
\* AIService._call_ollama).
external_calls(sv, ep) ==
    IF sv = "gateway"
    THEN IF ep = "health" THEN <<"sync", "sync">>
         ELSE IF ep = "generate_quiz_all" THEN <<"await", "await", "await">>
         ELSE <<"await">>
    ELSE IF ep = "generate_content_all" THEN <<"sync", "sync", "sync">>
         ELSE <<"sync">>

\* The handler of request r is at its n-th external call, or done past the
\* last one.
AtCall(r, n) ==
    LET plan == external_calls(service, tasks[r].endpoint) IN
    IF n <= Len(plan)
    THEN /\ tasks' = [tasks EXCEPT ![r] = [@ EXCEPT !.state = "waiting", !.call = n]]
         /\ holder' = IF plan[n] = "sync" THEN r ELSE 0
    ELSE /\ tasks' = [tasks EXCEPT ![r] = [@ EXCEPT !.state = "done", !.call = 0]]
         /\ holder' = 0

\* The loop takes an inbound request and runs its handler up to the first
\* external call.  It can do so only when no handler holds the thread.
accept ==
    /\ \E r \in Requests :
        /\ tasks[r].state = "queued"
        /\ holder = 0
        /\ AtCall(r, 1)
    /\ UNCHANGED service
    /\ UNCHANGED <<extract_vars, gateway_vars, scan_health_vars, backend_vars, sizing_vars, more_vars>>

\* An outstanding external call returns and its handler runs on, to the next
\* call or to the response (an exception ends a generation handler early;
\* health catches every exception of a probe and goes on).  A suspended
\* handler is resumed by the loop, so the thread must be free; a handler in a
\* synchronous call holds the thread itself.
resolve ==
    /\ \E r \in Requests :
        /\ tasks[r].state = "waiting"
        /\ holder \in {0, r}
        /\ \/ AtCall(r, tasks[r].call + 1)
           \/ /\ tasks[r].endpoint # "health"
              /\ AtCall(r, Len(external_calls(service, tasks[r].endpoint)) + 1)
    /\ UNCHANGED service
    /\ UNCHANGED <<extract_vars, gateway_vars, scan_health_vars, backend_vars, sizing_vars, more_vars>>

InitLoop ==
    /\ service \in {"gateway", "backend"}
    /\ tasks \in [Requests -> [endpoint : Endpoints(service), state : {"queued"}, call : {0}]]
    /\ holder = 0
    /\ raw = <<>>
    /\ parsed_out = NotRun
    /\ GatewayIdle
    /\ ScanHealthIdle
    /\ BackendIdle
    /\ SizingIdle
    /\ MoreIdle

NextLoop ==
    \/ accept
    \/ resolve

SpecLoop == InitLoop /\ [][NextLoop]_vars

\* C15: an outstanding external call never blocks the shared event loop:
\* while one request is waiting for an LLM generation call or a health probe,
\* the loop thread is free, so that another inbound request can be accepted
\* and progress to its own response.
C15_CallNeverBlocksLoop ==
    \A r \in Requests : tasks[r].state = "waiting" => holder = 0

-----------------------------------------------------------------------------
(* The prompt builder's sizing: the record-count range written into the    *)
(* prompt of each kind.                                                    *)

\* How far around each band limit the text lengths are taken.
MaxDelta == 4

\* Text lengths: the shortest texts and those around the three band limits.
Lengths ==
    {b + d : b \in {0, 3000, 5000, 10000}, d \in 1..MaxDelta}
        \cup {b - d : b \in {3000, 5000, 10000}, d \in 0..MaxDelta}

\* A variant whose band limits belong to the band above them.
num_questions_inclusive(text_length) ==
    IF text_length >= 10000 THEN <<12, 18>>
    ELSE IF text_length >= 5000 THEN <<10, 15>>
    ELSE IF text_length >= 3000 THEN <<8, 12>>
    ELSE <<5, 8>>

\* num_questions of the multiple-choice block, as <<low, high>>.
num_questions(text_length) ==
    IF text_length > 10000 THEN <<12, 18>>
    ELSE IF text_length > 5000 THEN <<10, 15>>
    ELSE IF text_length > 3000 THEN <<8, 12>>
    ELSE <<5, 8>>

\* num_flashcards of _generate_flashcards_with_llm.
num_flashcards(text_length) ==
    IF text_length > 10000 THEN <<18, 22>>
    ELSE IF text_length > 5000 THEN <<15, 18>>
    ELSE IF text_length > 3000 THEN <<12, 15>>
    ELSE <<8, 12>>

\* The fill-in-the-blank and short-answer prompts ask for "5-7" questions
\* whatever the length of the text.
fill_blank_questions(text_length) == <<5, 7>>

short_answer_questions(text_length) == <<5, 7>>

prompt_range(kind, text_length) ==
    IF kind = "multiple_choice" THEN num_questions(text_length)
    ELSE IF kind = "fill_blank" THEN fill_blank_questions(text_length)
    ELSE IF kind = "short_answer" THEN short_answer_questions(text_length)
    ELSE num_flashcards(text_length)

\* The prompt of one kind is built for a text of one length.
build_prompt ==
    /\ sz_range = <<0, 0>>
    /\ sz_range' = prompt_range(sz_kind, sz_len)
    /\ UNCHANGED <<sz_kind, sz_len>>
    /\ UNCHANGED <<extract_vars, gateway_vars, scan_health_vars, backend_vars, loop_vars, more_vars>>

InitSizing ==
    /\ sz_kind \in AllKinds
    /\ sz_len \in Lengths
    /\ sz_range = <<0, 0>>
    /\ raw = <<>>
    /\ parsed_out = NotRun
    /\ GatewayIdle
    /\ ScanHealthIdle
    /\ BackendIdle
    /\ LoopIdle
    /\ MoreIdle

NextSizing == build_prompt

SpecSizing == InitSizing /\ [][NextSizing]_vars

\* The band a text length falls in: <=3000, <=5000, <=10000, >10000.
Band(n) ==
    IF n <= 3000 THEN 1 ELSE IF n <= 5000 THEN 2 ELSE IF n <= 10000 THEN 3 ELSE 4

\* Range a is strictly higher than range b.
Higher(a, b) == a[1] > b[1] /\ a[2] > b[2]

\* C16: for each of multiple_choice, fill_blank, short_answer and flashcards
\* the range written into the prompt is selected by the band the input
\* length falls in (the same range throughout a band), and each higher band
\* maps to a strictly higher range than the band below it.
C16_SameShapeForEveryKind ==
    sz_range # <<0, 0>> =>
        \A m \in Lengths :
            /\ Band(m) = Band(sz_len) => prompt_range(sz_kind, m) = sz_range
            /\ Band(m) > Band(sz_len) => Higher(prompt_range(sz_kind, m), sz_range)

\* The ranges the design gives to multiple_choice and flashcards, by band.
ScaledRange(kind, band) ==
    IF kind = "multiple_choice"
    THEN <<<<5, 8>>, <<8, 12>>, <<10, 15>>, <<12, 18>>>>[band]
    ELSE <<<<8, 12>>, <<12, 15>>, <<15, 18>>, <<18, 22>>>>[band]

\* C23: for multiple_choice and flashcards the range is a monotone step
\* function of the text length whose band limits belong to the lower band:
\* up to 3000 characters 5-8 questions / 8-12 flashcards, 3001..5000 8-12 /
\* 12-15, 5001..10000 10-15 / 15-18, above 10000 12-18 / 18-22; and a longer
\* text never gets a lower minimum or maximum than a shorter one.
C23_ScaledRangesAreMonotoneSteps ==
    (sz_range # <<0, 0>> /\ sz_kind \in {"multiple_choice", "flashcards"}) =>
        /\ sz_range = ScaledRange(sz_kind, Band(sz_len))
        /\ \A m \in Lengths :
              m >= sz_len =>
                  /\ prompt_range(sz_kind, m)[1] >= sz_range[1]
                  /\ prompt_range(sz_kind, m)[2] >= sz_range[2]

\* A prompt was built for a text exactly on a band limit and got the range
\* of the band below the limit.
C23_Witness ==
    /\ sz_kind = "multiple_choice"
    /\ sz_len = 5000
    /\ sz_range = <<8, 12>>

-----------------------------------------------------------------------------
(* Concurrent quiz requests at the gateway.  Every request handler is a     *)
(* coroutine of its own; the handlers interleave at their completion calls, *)
(* which are awaited.  Each call of _generate_quiz_with_llm builds its      *)
(* aggregate in the dict it creates on entry.                               *)

\* What the LLM service does with a prompt in this specification: it times
\* out, or answers with an array of one record.
FlowOutcomes ==
    { [kind |-> "timeout", text |-> <<>>],
      [kind |-> "ok", text |-> <<"w", "[", "{", "k", "s", "}", "]">>] }

FlowQuizTypes == {"all", "fill_blank"}

FlowEnvs(qt) ==
    LET asked == {k \in Kinds : requested(k, qt)} IN
    {[k \in Kinds |-> IF k \in asked THEN f[k] ELSE Unused] :
        f \in [asked -> FlowOutcomes]}

NewFlow ==
    [pc |-> "new", quiz_type |-> "", ollama |-> [k \in Kinds |-> Unused],
     cur |-> "none", status |-> 0, quiz |-> <<>>]

\* A variant in which the dict is one object of the module, shared by every
\* call of the orchestrator.
result_slot_shared(r) == 1

\* `result = {}`: the dict a call of the orchestrator works on is the one it
\* created itself, a local of that call.
result_slot(r) == r

\* The handler of a request moves on from the block before position i with
\* the dict contents res: suspended in the next completion call, or answered.
FlowContinue(f, i, res) ==
    LET j == next_block(i, f.quiz_type) IN
    IF j <= Len(Blocks)
    THEN [f EXCEPT !.pc = "await", !.cur = Blocks[j]]
    ELSE LET outcome == IF final_check_fails(res) THEN "raised" ELSE "returned"
             resp == quiz_response(outcome, res)
         IN  [f EXCEPT !.pc = "done", !.cur = "none",
                       !.status = resp.status, !.quiz = resp.body.quiz]

\* A quiz request arrives: the orchestrator creates its dict and runs to its
\* first completion call.
quiz_arrives ==
    \E r \in Requests :
        /\ flows[r].pc = "new"
        /\ \E qt \in FlowQuizTypes : \E e \in FlowEnvs(qt) :
              LET f == [flows[r] EXCEPT !.quiz_type = qt, !.ollama = e] IN
              /\ dicts' = [dicts EXCEPT ![result_slot(r)] = <<>>]
              /\ flows' = [flows EXCEPT ![r] = FlowContinue(f, 1, <<>>)]
        /\ UNCHANGED <<extract_vars, gateway_vars, scan_health_vars, backend_vars>>
        /\ UNCHANGED <<loop_vars, sizing_vars, upload_vars>>

\* The completion call a request is suspended in resolves: its block stores
\* the records or handles the failure, and the handler runs on.
quiz_resumes ==
    \E r \in Requests :
        /\ flows[r].pc = "await"
        /\ LET f == flows[r]
               kind == f.cur
               res == dicts[result_slot(r)]
               b == block_try(kind, f.ollama[kind])
           IN  IF b.failed
               THEN /\ UNCHANGED dicts
                    /\ IF reraises(kind, f.quiz_type)
                       THEN flows' = [flows EXCEPT ![r] =
                                [f EXCEPT !.pc = "done", !.cur = "none",
                                          !.status = quiz_response("raised", res).status]]
                       ELSE flows' = [flows EXCEPT ![r] =
                                FlowContinue(f, block_index(kind) + 1, res)]
               ELSE LET stored == store(res, kind, b.records) IN
                    /\ dicts' = [dicts EXCEPT ![result_slot(r)] = stored]
                    /\ flows' = [flows EXCEPT ![r] =
                                    FlowContinue(f, block_index(kind) + 1, stored)]
        /\ UNCHANGED <<extract_vars, gateway_vars, scan_health_vars, backend_vars>>
        /\ UNCHANGED <<loop_vars, sizing_vars, upload_vars>>

InitConcurrent ==
    /\ flows = [r \in Requests |-> NewFlow]
    /\ dicts = [r \in Requests |-> <<>>]
    /\ raw = <<>>
    /\ parsed_out = NotRun
    /\ GatewayIdle
    /\ ScanHealthIdle
    /\ BackendIdle
    /\ LoopIdle
    /\ SizingIdle
    /\ UploadIdle

NextConcurrent ==
    \/ quiz_arrives
    \/ quiz_resumes

SpecConcurrent == InitConcurrent /\ [][NextConcurrent]_vars

\* The records in res are those of request r's own completions, under the
\* kinds r asked for.
OwnRecords(r, res) ==
    \A k \in DOMAIN res :
        /\ requested(k, flows[r].quiz_type)
        /\ res[k] = Extracted(flows[r].ollama[k]).value

\* Requests r and q asked for the same and got the same from the LLM service.
SameInputs(r, q) ==
    /\ flows[r].quiz_type = flows[q].quiz_type
    /\ flows[r].ollama = flows[q].ollama

\* Every dict and every answered quiz holds records of its own request
\* only, and two requests with the same inputs get the same response.
FlowsIsolated ==
    \A r \in Requests :
        /\ OwnRecords(r, dicts[r])
        /\ flows[r].pc = "done" =>
              /\ OwnRecords(r, flows[r].quiz)
              /\ \A q \in Requests :
                    (flows[q].pc = "done" /\ SameInputs(r, q)) =>
                        /\ flows[q].status = flows[r].status
                        /\ flows[q].quiz = flows[r].quiz

\* A step changes the dict of request r only if it is a step of r's handler.
OwnerWrites ==
    \A r \in Requests : dicts'[r] # dicts[r] => flows'[r] # flows[r]

\* C27: the response to a gateway generation request depends only on the
\* request's own kind and text and on the outcomes of its own completion
\* calls: under any interleaving of concurrent requests no aggregate is
\* written by, or holds records from, another request, and each aggregate is
\* written only by the control flow that owns it.
C27_RequestsAreIsolated == []FlowsIsolated /\ [][OwnerWrites]_vars

\* Two requests are in flight at once, both suspended in a completion call
\* with records already stored, and they did not get the same from the LLM.
C27_Witness ==
    /\ flows[1].pc = "await"
    /\ flows[2].pc = "await"
    /\ dicts[1] # <<>>
    /\ dicts[2] # <<>>
    /\ flows[1].ollama # flows[2].ollama

-----------------------------------------------------------------------------
(* Uploads written to a temporary file: POST /extract of the OCR service,   *)
(* POST /api/scan-notes and POST /api/process-audio of the backend.  Each   *)
(* handler is a coroutine that suspends once, in `await file.read()`, with  *)
(* the temporary file already open for writing; what follows the read (OCR  *)
(* with pytesseract, the placeholder transcription, requests.post) never    *)
(* suspends.  The directory is that of the process, shared by its requests. *)

\* The file names uploads carry ("": the part has no file name).
UploadNames == {"notes.jpg", "page.jpg", ""}

\* os.path.join(temp_dir, file.filename or "uploaded_image.jpg")
upload_path(filename) == IF filename = "" THEN "uploaded_image.jpg" ELSE filename

\* tempfile.NamedTemporaryFile(delete=False, suffix=".jpg"): a name no other
\* file has; the model names the file after the request.
NamedTemporaryFile(r) == ToString(r)

Paths == {upload_path(n) : n \in UploadNames} \cup {NamedTemporaryFile(r) : r \in Requests}

NewUpload ==
    [endpoint |-> "none", filename |-> "", image |-> FALSE, readable |-> FALSE,
     pc |-> "new", path |-> "", fd |-> 0, input |-> <<>>, status |-> 0]

\* open(path, "wb"): an existing file is truncated, a missing one is created
\* (the inode request r creates is numbered r); fd: the inode opened.
open_wb(fs, nodes, path, r) ==
    IF fs[path] = 0
    THEN [files |-> [fs EXCEPT ![path] = r], inodes |-> [nodes EXCEPT ![r] = <<>>],
          fd |-> r]
    ELSE [files |-> fs, inodes |-> [nodes EXCEPT ![fs[path]] = <<>>], fd |-> fs[path]]

\* buffer.write(content) and the close at the end of the with block: the
\* bytes of request r are in the inode the descriptor refers to, whether a
\* path still leads to it or not.
write_close(nodes, fd, r) == [nodes EXCEPT ![fd] = <<r>>]

\* The bytes at path can be processed: the file exists, is not empty, and
\* holds an upload that is a readable image (an audible recording).
Processable(fs, nodes, path) ==
    /\ fs[path] # 0
    /\ nodes[fs[path]] # <<>>
    /\ uploads[nodes[fs[path]][1]].readable

\* Image.open(path) and pytesseract.image_to_string: raise on a missing file
\* and on bytes that are no image, else the text of the bytes at path.
image_to_string(fs, nodes, path) ==
    IF Processable(fs, nodes, path)
    THEN [raised |-> FALSE, input |-> nodes[fs[path]]]
    ELSE [raised |-> TRUE, input |-> <<>>]

\* OCRService.extract_text: any exception is raised again.
OCRService_extract_text(fs, nodes, path) == image_to_string(fs, nodes, path)

\* AudioService.transcribe_audio: with USE_WHISPER_API the file is opened
\* and posted, and any error raised again; without it the placeholder
\* answers and the file is not read.
transcribe_audio(fs, nodes, path) ==
    IF whisper_api
    THEN IF Processable(fs, nodes, path)
         THEN [raised |-> FALSE, input |-> nodes[fs[path]]]
         ELSE [raised |-> TRUE, input |-> <<>>]
    ELSE [raised |-> FALSE, input |-> <<>>]

\* The OCR service's handler up to the read of the upload.  The
\* HTTPException(400) for a part that is no image is raised inside the try
\* and answered as a 500 by its except Exception clause.
extract_text ==
    \E r \in Requests : \E img \in BOOLEAN, ok \in BOOLEAN :
        /\ u_service = "ocr-service"
        /\ uploads[r].pc = "new"
        /\ LET u == [uploads[r] EXCEPT !.endpoint = "extract", !.image = img,
                                       !.readable = ok]
           IN  IF ~img
               THEN /\ uploads' = [uploads EXCEPT ![r] =
                                      [u EXCEPT !.pc = "done", !.status = 500]]
                    /\ UNCHANGED <<files, inodes>>
               ELSE LET o == open_wb(files, inodes, NamedTemporaryFile(r), r) IN
                    /\ files' = o.files
                    /\ inodes' = o.inodes
                    /\ uploads' = [uploads EXCEPT ![r] =
                                      [u EXCEPT !.pc = "reading", !.fd = o.fd,
                                                !.path = NamedTemporaryFile(r)]]
        /\ UNCHANGED <<u_service, whisper_api>>
        /\ UNCHANGED <<extract_vars, gateway_vars, scan_health_vars, backend_vars>>
        /\ UNCHANGED <<loop_vars, sizing_vars, concurrent_vars>>

\* The OCR service's handler from the read on: the bytes are written, the
\* image is opened and recognised inside try/finally, and the finally clause
\* removes the file if it exists.
extract_text_resume ==
    \E r \in Requests :
        /\ uploads[r].endpoint = "extract"
        /\ uploads[r].pc = "reading"
        /\ LET u == uploads[r]
               written == write_close(inodes, u.fd, r)
               out == image_to_string(files, written, u.path)
           IN  /\ inodes' = written
               /\ files' = [files EXCEPT ![u.path] = 0]
               /\ uploads' = [uploads EXCEPT ![r] =
                      [u EXCEPT !.pc = "done", !.input = out.input,
                                !.status = IF out.raised THEN 500 ELSE 200]]
        /\ UNCHANGED <<u_service, whisper_api>>
        /\ UNCHANGED <<extract_vars, gateway_vars, scan_health_vars, backend_vars>>
        /\ UNCHANGED <<loop_vars, sizing_vars, concurrent_vars>>

\* A backend handler up to the read of the upload: the path is joined from
\* the temporary directory and the upload's file name, and opened.
BackendUpload(r, ep) ==
    /\ u_service = "backend"
    /\ uploads[r].pc = "new"
    /\ \E name \in UploadNames, ok \in BOOLEAN :
          LET file_path == upload_path(name)
              o == open_wb(files, inodes, file_path, r)
          IN  /\ files' = o.files
              /\ inodes' = o.inodes
              /\ uploads' = [uploads EXCEPT ![r] =
                     [@ EXCEPT !.endpoint = ep, !.filename = name, !.readable = ok,
                               !.pc = "reading", !.path = file_path, !.fd = o.fd]]
    /\ UNCHANGED <<u_service, whisper_api>>
    /\ UNCHANGED <<extract_vars, gateway_vars, scan_health_vars, backend_vars>>
    /\ UNCHANGED <<loop_vars, sizing_vars, concurrent_vars>>

\* A backend handler from the read on: the bytes are written, the service
\* is called, then os.remove(file_path) and the answer; an exception of the
\* service, or of os.remove for a file that is gone, skips what is left and
\* is answered with a 500.
BackendUploadResume(r, ep, out, written) ==
    /\ inodes' = written
    /\ IF out.raised \/ files[uploads[r].path] = 0
       THEN /\ UNCHANGED files
            /\ uploads' = [uploads EXCEPT ![r] =
                   [@ EXCEPT !.pc = "done", !.status = 500]]
       ELSE /\ files' = [files EXCEPT ![uploads[r].path] = 0]
            /\ uploads' = [uploads EXCEPT ![r] =
                   [@ EXCEPT !.pc = "done", !.input = out.input, !.status = 200]]
    /\ UNCHANGED <<u_service, whisper_api>>
    /\ UNCHANGED <<extract_vars, gateway_vars, scan_health_vars, backend_vars>>
    /\ UNCHANGED <<loop_vars, sizing_vars, concurrent_vars>>

scan_notes == \E r \in Requests : BackendUpload(r, "scan-notes")

scan_notes_resume ==
    \E r \in Requests :
        /\ uploads[r].endpoint = "scan-notes"
        /\ uploads[r].pc = "reading"
        /\ LET written == write_close(inodes, uploads[r].fd, r) IN
           BackendUploadResume(r, "scan-notes",
               OCRService_extract_text(files, written, uploads[r].path), written)

process_audio == \E r \in Requests : BackendUpload(r, "process-audio")

process_audio_resume ==
    \E r \in Requests :
        /\ uploads[r].endpoint = "process-audio"
        /\ uploads[r].pc = "reading"
        /\ LET written == write_close(inodes, uploads[r].fd, r) IN
           BackendUploadResume(r, "process-audio",
               transcribe_audio(files, written, uploads[r].path), written)

InitUpload ==
    /\ u_service \in {"ocr-service", "backend"}
    /\ whisper_api \in (IF u_service = "backend" THEN BOOLEAN ELSE {FALSE})
    /\ uploads = [r \in Requests |-> NewUpload]
    /\ files = [p \in Paths |-> 0]
    /\ inodes = [n \in Requests |-> <<>>]
    /\ raw = <<>>
    /\ parsed_out = NotRun
    /\ GatewayIdle
    /\ ScanHealthIdle
    /\ BackendIdle
    /\ LoopIdle
    /\ SizingIdle
    /\ ConcurrentIdle

NextUpload ==
    \/ extract_text
    \/ extract_text_resume
    \/ scan_notes
    \/ scan_notes_resume
    \/ process_audio
    \/ process_audio_resume

SpecUpload == InitUpload /\ [][NextUpload]_vars

\* C29: every endpoint that writes an upload to a temporary file has removed
\* that file by the time it responds, on the success path and on every
\* failure path.  (A file found at the path of an answered request counts
\* only if no other request has the same path open.)
C29_TempFileAlwaysRemoved ==
    \A r \in Requests :
        (uploads[r].pc = "done" /\ uploads[r].fd # 0) =>
            \/ files[uploads[r].path] = 0
            \/ \E q \in Requests \ {r} :
                  /\ uploads[q].pc = "reading"
                  /\ uploads[q].path = uploads[r].path

\* C30: scan-notes requests that overlap in time and carry the same file
\* name do not interfere: each request has OCR run on exactly the bytes it
\* uploaded, and none fails because another wrote, truncated or removed the
\* temporary file: a request fails only when its own upload is unreadable.
C30_SameNameUploadsDoNotInterfere ==
    (\A q \in Requests : uploads[q].endpoint \in {"none", "scan-notes"}) =>
        \A r \in Requests :
            uploads[r].pc = "done" =>
                IF uploads[r].readable
                THEN uploads[r].status = 200 /\ uploads[r].input = <<r>>
                ELSE uploads[r].status = 500

====
